---- MODULE Spec2Model ----
(***************************************************************************)
(* A model of the generative model of covid19_npis:                        *)
(*   - main_model            (src/covid19_npis/model/model.py)             *)
(*   - studentT_likelihood   (src/covid19_npis/model/likelihood.py)        *)
(*   - ModelParams           (src/covid19_npis/modelParams.py)             *)
(* Tensors are records [shape, flat] with flat the row-major contents.     *)
(***************************************************************************)
EXTENDS Integers, Sequences, FiniteSets, TLC

(***************************************************************************)
(* Sizes of the dataset and of the sample axis.                            *)
(***************************************************************************)
\* number of rows (days) of the data frame
NumTime == 2
\* ModelParams.num_countries for the dataset
NumCountries == 2
\* ModelParams.num_age_groups for the dataset
NumAgeGroups == 3
\* at most MaxNaN entries of the data are NaN, or at most MaxNaN are not NaN
MaxNaN == 1
\* sample_shape=(3,) of evaluate_model_transformed
NumSamples == 3

(***************************************************************************)
(* Tensor helpers: shapes, row-major indexing, broadcasting.               *)
(***************************************************************************)
RECURSIVE Prod(_)
Prod(s) == IF s = <<>> THEN 1 ELSE Head(s) * Prod(Tail(s))

Tensor(shape, flat) == [shape |-> shape, flat |-> flat]

Rank(t) == Len(t.shape)

\* the 0-based multi-index of the 0-based flat index i in a tensor of this shape
Unravel(i, shape) ==
  [d \in 1..Len(shape) |->
     (i \div Prod(SubSeq(shape, d + 1, Len(shape)))) % shape[d]]

\* the 0-based flat index of a 0-based multi-index
Ravel(idx, shape) ==
  LET RECURSIVE R(_, _)
      R(d, acc) == IF d > Len(shape) THEN acc
                   ELSE R(d + 1, acc * shape[d] + idx[d])
  IN  R(1, 0)

\* the entry of t at a 0-based multi-index
At(t, idx) == t.flat[Ravel(idx, t.shape) + 1]

\* a shape padded on the left with 1s to rank n
PadLeft(s, n) == [d \in 1..n |-> IF d <= n - Len(s) THEN 1 ELSE s[d - (n - Len(s))]]

MaxOf(a, b) == IF a >= b THEN a ELSE b

\* numpy/TensorFlow broadcasting: shapes are right-aligned and an axis of
\* size 1 is stretched
BroadcastOk(s1, s2) ==
  LET n == MaxOf(Len(s1), Len(s2))
      p1 == PadLeft(s1, n)
      p2 == PadLeft(s2, n)
  IN  \A d \in 1..n : p1[d] = p2[d] \/ p1[d] = 1 \/ p2[d] = 1

BroadcastShape(s1, s2) ==
  LET n == MaxOf(Len(s1), Len(s2))
      p1 == PadLeft(s1, n)
      p2 == PadLeft(s2, n)
  IN  [d \in 1..n |-> MaxOf(p1[d], p2[d])]

\* the entry of t that the 0-based flat index i of the broadcast shape reads
BroadcastGet(t, outshape, i) ==
  LET n == Len(outshape)
      r == Rank(t)
      idx == Unravel(i, outshape)
      tidx == [d \in 1..r |-> IF t.shape[d] = 1 THEN 0 ELSE idx[n - r + d]]
  IN  At(t, tidx)

\* t[..., tf.newaxis]
NewAxisLast(t) == Tensor(t.shape \o <<1>>, t.flat)

\* t[tf.newaxis, ...]
NewAxisFirst(t) == Tensor(<<1>> \o t.shape, t.flat)

\* tf.transpose(t, perm): axis d of the result is axis perm[d] (0-based) of t
Transpose(t, perm) ==
  LET oshape == [d \in 1..Rank(t) |-> t.shape[perm[d] + 1]]
      src(i) == LET oidx == Unravel(i, oshape)
                    tidx == [a \in 1..Rank(t) |->
                               oidx[CHOOSE d \in 1..Rank(t) : perm[d] + 1 = a]]
                IN  At(t, tidx)
  IN  Tensor(oshape, [j \in 1..Prod(oshape) |-> src(j - 1)])

\* tf.boolean_mask(t, mask, axis): the axes axis+1 .. axis+rank(mask) of t are
\* replaced by one axis that keeps, in row-major order, the positions where
\* mask is TRUE
BooleanMask(t, mask, axis) ==
  LET lead == SubSeq(t.shape, 1, axis)
      M == Prod(mask.shape)
      trail == SubSeq(t.shape, axis + Rank(mask) + 1, Rank(t))
      Tr == Prod(trail)
      kept == SelectSeq([i \in 1..M |-> i], LAMBDA i : mask.flat[i])
      K == Len(kept)
      get(j) == LET l == j \div (K * Tr)
                    r == j % (K * Tr)
                IN  t.flat[(l * M + kept[(r \div Tr) + 1] - 1) * Tr + (r % Tr) + 1]
  IN  Tensor(lead \o <<K>> \o trail,
             [j \in 1..(Prod(lead) * K * Tr) |-> get(j - 1)])

\* whether tf.boolean_mask accepts the shapes
BooleanMaskOk(t, mask, axis) ==
  /\ axis >= 0
  /\ axis + Rank(mask) <= Rank(t)
  /\ SubSeq(t.shape, axis + 1, axis + Rank(mask)) = mask.shape

(***************************************************************************)
(* Floating point values of the observed data: a number or NaN.            *)
(***************************************************************************)
Num(v) == [nan |-> FALSE, v |-> v]
NaN == [nan |-> TRUE, v |-> 0]

IsNan(x) == x.nan

(***************************************************************************)
(* State.                                                                  *)
(***************************************************************************)
VARIABLES
  entry,          \* the function that is run in this behaviour
  pc,             \* the position in that function
  err,            \* the exception that ended the run, or "none"
  sample_shape,   \* the leading sample/batch axes of every sampled tensor
  trace,          \* the names declared so far, in order
  dists,          \* the distributions declared so far (name and shapes)
  data_tensor,    \* modelParams.data_tensor (time, country, age_group)
  new_cases,      \* studentT_likelihood's argument
  sigma,          \* studentT_likelihood's local sigma
  loc,            \* loc of "like"
  scale,          \* scale of "like"
  observed,       \* observed of "like"
  C_cholesky,     \* main_model: the value declared as "C_cholesky"
  C_det,          \* main_model: the value declared as "C"
  C,              \* main_model's local C
  im_C,           \* the C handed to InfectionModel
  new_E_t_raw,    \* what InfectionModel returned
  new_E_t,        \* main_model's local new_E_t
  total_tests,    \* main_model's local total_tests
  positive_tests, \* main_model's local positive_tests
  deaths_delayed, \* main_model's local deaths_delayed
  like_args,      \* the tensors handed to studentT_likelihood
  num_countries,  \* ModelParams.num_countries
  num_age_groups, \* ModelParams.num_age_groups
  df,             \* ModelParams.df: the data frame, as its cells
  distributions,  \* ModelParams.distributions: key -> entry
  data,           \* ModelParams.data: the configuration of the input data
  held,           \* the object the caller got from its last successful call
  last,           \* the caller's last step on the ModelParams
  asked,          \* the name given to the last get_distribution_by_name
  globals,        \* weekly_modulation.py: the free names that are bound
  week_modulation_type,   \* week_modulation's argument
  model,          \* week_modulation's argument model, or None
  cases,          \* week_modulation's argument cases
  shape_modulation,       \* week_modulation's local
  weekend_factor, \* week_modulation's local
  modulation,     \* week_modulation's local
  multiplication_vec,     \* week_modulation's local
  new_cases_inferred_eff  \* week_modulation's local

likeVars == <<data_tensor, new_cases, sigma, loc, scale, observed>>

fieldVars == <<num_countries, num_age_groups, df, distributions, data>>

paramVars == <<fieldVars, held, last, asked>>

weekVars == <<globals, week_modulation_type, model, cases, shape_modulation,
              weekend_factor, modulation, multiplication_vec, new_cases_inferred_eff>>

mainVars == <<C_cholesky, C_det, C, im_C, new_E_t_raw, new_E_t, total_tests,
              positive_tests, deaths_delayed, like_args>>

\* the value of a local that is not bound yet
Unbound == Tensor(<<0>>, <<>>)

(***************************************************************************)
(* Inputs.                                                                 *)
(***************************************************************************)
\* the sample shapes a model is evaluated with: none, or (NumSamples,)
SampleShapes == {<<>>, <<NumSamples>>}

\* the size of the batch axis under a sample axis
NumBatch == 2

\* the leading axes of studentT_likelihood's new_cases: none, a batch axis,
\* or a sample axis and a batch axis
LikeSampleShapes == SampleShapes \cup {<<NumSamples, NumBatch>>}

DataShape == <<NumTime, NumCountries, NumAgeGroups>>

RECURSIVE SubsetsUpTo(_, _)
SubsetsUpTo(S, k) ==
  IF k = 0 THEN {{}}
  ELSE LET prev == SubsetsUpTo(S, k - 1)
       IN  prev \cup {s \cup {x} : s \in prev, x \in S}

\* the NaN patterns of the data: few NaN entries, or few entries that are not
NaNPatterns ==
  LET P == 1..Prod(DataShape)
  IN  SubsetsUpTo(P, MaxNaN) \cup {P \ s : s \in SubsetsUpTo(P, MaxNaN)}

\* the observed data: entry i holds the number i unless it is missing
DataTensors ==
  {Tensor(DataShape, [i \in 1..Prod(DataShape) |-> IF i \in nans THEN NaN ELSE Num(i)]) :
     nans \in NaNPatterns}

\* inputs of studentT_likelihood: positive counts, a different one at every
\* position (squares, so that tf.sqrt is exact)
NewCasesInputs(sshape) ==
  LET shape == sshape \o DataShape
  IN  {Tensor(shape, [i \in 1..Prod(shape) |-> (i + k) * (i + k)]) : k \in {0, 1}}

\* the unconstrained values the sampler proposes for sigma
SigmaUnconstrained(shape) ==
  {Tensor(shape, [i \in 1..Prod(shape) |-> ((i + k) % 5) - 2]) : k \in {0, 3}}

(***************************************************************************)
(* studentT_likelihood                                                     *)
(***************************************************************************)
\* the number 1, in the unit of sigma and scale (thousandths)
One == 1000

\* log(1 + exp(u)) in thousandths, for u = -2 .. 2
SoftPlusTable == <<127, 313, 693, 1313, 2127>>

\* the transform left out: the sampler's unconstrained value is used as sigma
SoftPlusOmitted(u) == u * One

\* transformations.SoftPlus: the constrained value of an unconstrained one
SoftPlus(u) == SoftPlusTable[u + 3]

\* tf.sqrt on the squares the inputs hold
Sqrt(x) == CHOOSE r \in 0..x : r * r = x

\* a declared distribution: the batch shape of its parameters, the number of
\* trailing axes of a value that are event axes (the base event rank plus the
\* event_stack), and reinterpreted_batch_ndims
Dist(name, batch_shape, event_ndims, reinterpreted, value_shape) ==
  [name |-> name, batch_shape |-> batch_shape, event_ndims |-> event_ndims,
   reinterpreted |-> reinterpreted, value_shape |-> value_shape]

\* the shape of dist.log_prob(value): the value's batch axes broadcast with
\* the parameters' batch shape, less the reinterpreted batch axes
LogProbShape(d) ==
  LET vbatch == SubSeq(d.value_shape, 1, Len(d.value_shape) - d.event_ndims)
      full == BroadcastShape(d.batch_shape, vbatch)
  IN  SubSeq(full, 1, Len(full) - d.reinterpreted)

\* sigma = yield HalfCauchy(name="sigma", event_stack=(num_countries), ...)
SigmaDist(value_shape) == Dist("sigma", <<>>, 1, 0, value_shape)

DeclareSigma ==
  /\ pc = "sigma"
  /\ \E u \in SigmaUnconstrained(sample_shape \o <<NumCountries>>) :
       sigma' = Tensor(u.shape, [i \in 1..Len(u.flat) |-> SoftPlus(u.flat[i])])
  /\ trace' = Append(trace, "sigma")
  /\ dists' = Append(dists, SigmaDist(sample_shape \o <<NumCountries>>))
  /\ pc' = "reshape"
  /\ UNCHANGED <<entry, err, sample_shape, data_tensor, new_cases, loc, scale, observed,
                 mainVars, paramVars, weekVars>>

\* sigma[..., tf.newaxis], sigma[tf.newaxis, ...] and the transpose that
\* moves one batch axis to the front
ReshapedSigma(s) ==
  LET s1 == NewAxisLast(s)
      s2 == NewAxisFirst(s1)
  IN  IF Rank(s2) = 4 THEN Transpose(s2, <<1, 0, 2, 3>>) ELSE s2

ReshapeSigma ==
  /\ pc = "reshape"
  /\ sigma' = ReshapedSigma(sigma)
  /\ pc' = "like"
  /\ UNCHANGED <<entry, err, sample_shape, trace, dists, data_tensor, new_cases,
                 loc, scale, observed, mainVars, paramVars, weekVars>>

\* the mask without its negation: np.isnan(data)
DataMaskNotNegated(dat) ==
  Tensor(dat.shape, [i \in 1..Len(dat.flat) |-> IsNan(dat.flat[i])])

\* mask = ~np.isnan(data)
DataMask(dat) == Tensor(dat.shape, [i \in 1..Len(dat.flat) |-> ~IsNan(dat.flat[i])])

\* len_batch_shape = len(new_cases.shape) - 3
LenBatchShape(nc) == Rank(nc) - 3

\* sigma * tf.sqrt(new_cases) + 1, before the mask
ScaleFull(s, nc) ==
  LET shape == BroadcastShape(s.shape, nc.shape)
  IN  Tensor(shape, [i \in 1..Prod(shape) |->
        BroadcastGet(s, shape, i - 1) * Sqrt(BroadcastGet(nc, shape, i - 1)) + One])

\* loc of "like"
LikeLoc(nc, dat) == BooleanMask(nc, DataMask(dat), LenBatchShape(nc))

\* scale of "like"
LikeScale(s, nc, dat) == BooleanMask(ScaleFull(s, nc), DataMask(dat), LenBatchShape(nc))

\* observed of "like"
LikeObserved(dat) == BooleanMask(dat, DataMask(dat), 0)

\* "like" without reinterpreted_batch_ndims
LikeDistNotReinterpreted(l, sc, obs) ==
  Dist("like", BroadcastShape(l.shape, sc.shape), 0, 0, obs.shape)

\* pm.StudentT(name="like", loc, scale, df=4, observed, reinterpreted_batch_ndims=1)
LikeDist(l, sc, obs) ==
  Dist("like", BroadcastShape(l.shape, sc.shape), 0, 1, obs.shape)

\* whether the tensor operations of the "like" declaration accept their shapes
LikeShapesOk(s, nc, dat) ==
  /\ BooleanMaskOk(nc, DataMask(dat), LenBatchShape(nc))
  /\ BroadcastOk(s.shape, nc.shape)
  /\ BooleanMaskOk(ScaleFull(s, nc), DataMask(dat), LenBatchShape(nc))

DeclareLike ==
  /\ pc = "like"
  /\ IF LikeShapesOk(sigma, new_cases, data_tensor)
     THEN /\ loc' = LikeLoc(new_cases, data_tensor)
          /\ scale' = LikeScale(sigma, new_cases, data_tensor)
          /\ observed' = LikeObserved(data_tensor)
          /\ trace' = Append(trace, "like")
          /\ dists' = Append(dists, LikeDist(loc', scale', observed'))
          /\ pc' = "done"
          /\ err' = err
     ELSE /\ pc' = "error"
          /\ err' = "InvalidArgumentError"
          /\ UNCHANGED <<loc, scale, observed, trace, dists>>
  /\ UNCHANGED <<entry, sample_shape, data_tensor, new_cases, sigma, mainVars, paramVars, weekVars>>

(***************************************************************************)
(* Numbers of the infection model: sgn * 10^exp, zero, or an infinity.     *)
(***************************************************************************)
Pow10(e) == [sgn |-> 1, exp |-> e, inf |-> FALSE]
NegPow10(e) == [sgn |-> -1, exp |-> e, inf |-> FALSE]
Zero == [sgn |-> 0, exp |-> 0, inf |-> FALSE]
PosInf == [sgn |-> 1, exp |-> 0, inf |-> TRUE]
NegInf == [sgn |-> -1, exp |-> 0, inf |-> TRUE]

\* x <= y
Leq(x, y) ==
  CASE x.sgn < y.sgn -> TRUE
    [] x.sgn > y.sgn -> FALSE
    [] x.sgn = 0 /\ y.sgn = 0 -> TRUE
    [] x.sgn = 1 /\ y.sgn = 1 ->
         IF y.inf THEN TRUE ELSE IF x.inf THEN FALSE ELSE x.exp <= y.exp
    [] x.sgn = -1 /\ y.sgn = -1 ->
         IF x.inf THEN TRUE ELSE IF y.inf THEN FALSE ELSE x.exp >= y.exp

\* tf.minimum and tf.maximum on one entry
Minimum(x, y) == IF Leq(x, y) THEN x ELSE y
Maximum(x, y) == IF Leq(x, y) THEN y ELSE x

\* the bounds of the clip: 1e-7 and 1e9
ClipMinExp == -7
ClipMaxExp == 9

\* a clip that forgets the lower bound
ClipByValueUpperOnly(t, lo, hi) ==
  Tensor(t.shape, [i \in 1..Len(t.flat) |-> Minimum(t.flat[i], hi)])

\* tf.clip_by_value(t, lo, hi)
ClipByValue(t, lo, hi) ==
  Tensor(t.shape, [i \in 1..Len(t.flat) |-> Maximum(Minimum(t.flat[i], hi), lo)])

\* values InfectionModel may return: negative, zero, below, at and above each
\* bound of the clip, and the infinities
RawValues ==
  <<NegInf, NegPow10(0), Zero, Pow10(ClipMinExp - 1), Pow10(ClipMinExp), Pow10(0),
    Pow10(ClipMaxExp), Pow10(ClipMaxExp + 1), PosInf>>

\* the tensors InfectionModel may return (batch, time, country, age_group):
\* the values in turn, or the number one everywhere
InfectionModelOutputs(sshape) ==
  LET shape == sshape \o DataShape
      n == Len(RawValues)
  IN  {Tensor(shape, [i \in 1..Prod(shape) |-> Pow10(0)])}
      \cup
      {Tensor(shape, [i \in 1..Prod(shape) |-> RawValues[((i + k) % n) + 1]]) : k \in 1..n}

(***************************************************************************)
(* The contact matrix.  Entries of a Cholesky factor are in fifths, entries *)
(* of C = L L^T in twenty-fifths, entries of the normalized C are fractions.*)
(***************************************************************************)
RECURSIVE SumTo(_, _)
SumTo(f, n) == IF n = 0 THEN 0 ELSE f[n] + SumTo(f, n - 1)

RECURSIVE SetToSeq(_)
SetToSeq(S) ==
  IF S = {} THEN <<>>
  ELSE LET x == CHOOSE y \in S : TRUE IN <<x>> \o SetToSeq(S \ {x})

Abs(x) == IF x < 0 THEN 0 - x ELSE x

CholEntries == {-4, -3, 0, 3, 4, 5}

\* row i of a Cholesky factor of a correlation matrix: zero right of the
\* diagonal, positive on it, of length one
CholRows(i, n) ==
  {r \in [1..n -> CholEntries] :
     /\ \A j \in 1..n : j > i => r[j] = 0
     /\ r[i] > 0
     /\ SumTo([j \in 1..n |-> r[j] * r[j]], n) = 5 * 5}

\* the rows a factor of dimension NumAgeGroups may have, row by row
CholRowSeqs == [i \in 1..NumAgeGroups |-> SetToSeq(CholRows(i, NumAgeGroups))]

\* the number of factors with rows 1 .. i
RECURSIVE CholCount(_)
CholCount(i) == IF i = 0 THEN 1 ELSE Len(CholRowSeqs[i]) * CholCount(i - 1)

\* entry (a, b) of factor number f (each row of the factor is one digit of f)
CholFactorEntry(f, a, b) ==
  CholRowSeqs[a][((f \div CholCount(a - 1)) % Len(CholRowSeqs[a])) + 1][b]

\* the values the sampler proposes for "C_cholesky"
\* (batch, country, age_group, age_group): the factors in turn
CholeskySamples(sshape) ==
  LET shape == sshape \o <<NumCountries, NumAgeGroups, NumAgeGroups>>
      n == NumAgeGroups
      nf == CholCount(n)
  IN  {Tensor(shape, [i \in 1..Prod(shape) |->
         CholFactorEntry((((i - 1) \div (n * n)) + k) % nf,
                         (((i - 1) % (n * n)) \div n) + 1,
                         ((i - 1) % n) + 1)]) :
       k \in 1..nf}

\* tf.einsum("...an,...bn->...ab", t, t)
EinsumABt(t) ==
  LET n == t.shape[Rank(t)]
      entry_(i) == LET m == (i - 1) \div (n * n)
                      a == ((i - 1) % (n * n)) \div n
                      b == (i - 1) % n
                  IN  SumTo([k \in 1..n |-> t.flat[m * n * n + a * n + k]
                                           * t.flat[m * n * n + b * n + k]], n)
  IN  Tensor(t.shape, [i \in 1..Len(t.flat) |-> entry_(i)])

\* tf.linalg.normalize(t, ord=1, axis=-1)[0]: every entry divided by the sum
\* of the absolute values along the last axis
NormalizeL1(t) ==
  LET n == t.shape[Rank(t)]
      norm(i) == LET row == (i - 1) \div n
                 IN  SumTo([k \in 1..n |-> Abs(t.flat[row * n + k])], n)
  IN  Tensor(t.shape, [i \in 1..Len(t.flat) |-> [num |-> t.flat[i], den |-> norm(i)]])

\* C = yield LKJCholesky(name="C_cholesky", dimension=num_age_groups,
\*                       event_stack=num_countries, ...)
CholeskyDist(value_shape) == Dist("C_cholesky", <<>>, 3, 0, value_shape)

(***************************************************************************)
(* Sub-models whose result is known only by name and input.                *)
(***************************************************************************)
Derived(name, input) == [tensor |-> name, from |-> input]

\* number_of_tests.generate_testing(name_total, name_positive, modelParams, new_E_t)
GenerateTesting(name_total, name_positive, E) ==
  <<Derived(name_total, E), Derived(name_positive, E)>>

\* deaths.calc_delayed_deaths(name, new_cases, Phi_IFR, m, theta)
CalcDelayedDeaths(name, counts) == Derived(name, counts)

\* modulation.weekly_modulation(name, modelParams, cases, ...)
WeeklyModulation(name, counts) == Derived(name, counts)

(***************************************************************************)
(* main_model                                                              *)
(***************************************************************************)
headVars == <<entry, err, sample_shape, paramVars, weekVars>>

DeclareR_0 ==
  /\ pc = "R_0"
  /\ trace' = Append(trace, "R_0")
  /\ pc' = "R_t"
  /\ UNCHANGED <<headVars, dists, likeVars, mainVars>>

DeclareR_t ==
  /\ pc = "R_t"
  /\ trace' = Append(trace, "R_t")
  /\ pc' = "C_cholesky"
  /\ UNCHANGED <<headVars, dists, likeVars, mainVars>>

DeclareC_cholesky ==
  /\ pc = "C_cholesky"
  /\ \E L \in CholeskySamples(sample_shape) :
       /\ C_cholesky' = L
       /\ C' = L
       /\ dists' = Append(dists, CholeskyDist(L.shape))
  /\ trace' = Append(trace, "C_cholesky")
  /\ pc' = "C"
  /\ UNCHANGED <<headVars, likeVars, C_det, im_C, new_E_t_raw, new_E_t, total_tests,
                 positive_tests, deaths_delayed, like_args>>

\* C = yield Deterministic(name="C", value=einsum(C, C)), then the normalization
DeclareC ==
  /\ pc = "C"
  /\ C_det' = EinsumABt(C)
  /\ C' = NormalizeL1(C_det')
  /\ trace' = Append(trace, "C")
  /\ pc' = "gen_interval"
  /\ UNCHANGED <<headVars, dists, likeVars, C_cholesky, im_C, new_E_t_raw, new_E_t,
                 total_tests, positive_tests, deaths_delayed, like_args>>

\* gen_kernel, mean_gen_interv = yield construct_generation_interval(l=12)
GenerationInterval ==
  /\ pc = "gen_interval"
  /\ pc' = "h_0_t"
  /\ UNCHANGED <<headVars, trace, dists, likeVars, mainVars>>

\* h_0_t = yield construct_h_0_t(...); yield Deterministic(name="h_0_t", ...)
DeclareH_0_t ==
  /\ pc = "h_0_t"
  /\ trace' = Append(trace, "h_0_t")
  /\ pc' = "InfectionModel"
  /\ UNCHANGED <<headVars, dists, likeVars, mainVars>>

\* new_E_t = InfectionModel(N=N, h_0_t=h_0_t, R_t=R_t, C=C, gen_kernel=gen_kernel)
CallInfectionModel ==
  /\ pc = "InfectionModel"
  /\ im_C' = C
  /\ new_E_t_raw' \in InfectionModelOutputs(sample_shape)
  /\ new_E_t' = new_E_t_raw'
  /\ pc' = "new_E_t"
  /\ UNCHANGED <<headVars, trace, dists, likeVars, C_cholesky, C_det, C, total_tests,
                 positive_tests, deaths_delayed, like_args>>

\* new_E_t = tf.clip_by_value(new_E_t, 1e-7, 1e9)
\* new_E_t = yield Deterministic(name="new_E_t", value=new_E_t, ...)
DeclareNew_E_t ==
  /\ pc = "new_E_t"
  /\ new_E_t' = ClipByValue(new_E_t, Pow10(ClipMinExp), Pow10(ClipMaxExp))
  /\ trace' = Append(trace, "new_E_t")
  /\ pc' = "testing"
  /\ UNCHANGED <<headVars, dists, likeVars, C_cholesky, C_det, C, im_C, new_E_t_raw,
                 total_tests, positive_tests, deaths_delayed, like_args>>

\* total_tests, positive_tests = yield generate_testing(...)
Testing ==
  /\ pc = "testing"
  /\ LET r == GenerateTesting("total_tests", "positive_tests", new_E_t)
     IN  /\ total_tests' = r[1]
         /\ positive_tests' = r[2]
  /\ trace' = trace \o <<"total_tests", "positive_tests">>
  /\ pc' = "IFR"
  /\ UNCHANGED <<headVars, dists, likeVars, C_cholesky, C_det, C, im_C, new_E_t_raw,
                 new_E_t, deaths_delayed, like_args>>

\* death_Phi = yield deaths._calc_Phi_IFR(name="IFR", ...)
DeclareIFR ==
  /\ pc = "IFR"
  /\ trace' = Append(trace, "IFR")
  /\ pc' = "delay_deaths"
  /\ UNCHANGED <<headVars, dists, likeVars, mainVars>>

\* death_m, death_theta = yield deaths._construct_reporting_delay(name="delay_deaths", ...)
DeclareDelayDeaths ==
  /\ pc = "delay_deaths"
  /\ trace' = Append(trace, "delay_deaths")
  /\ pc' = "cases_delayed_deaths"
  /\ UNCHANGED <<headVars, dists, likeVars, mainVars>>

\* deaths_delayed = yield deaths.calc_delayed_deaths(name="cases_delayed_deaths", ...)
DelayedDeaths ==
  /\ pc = "cases_delayed_deaths"
  /\ deaths_delayed' = CalcDelayedDeaths("cases_delayed_deaths", new_E_t)
  /\ trace' = Append(trace, "cases_delayed_deaths")
  /\ pc' = "likelihood"
  /\ UNCHANGED <<headVars, dists, likeVars, C_cholesky, C_det, C, im_C, new_E_t_raw,
                 new_E_t, total_tests, positive_tests, like_args>>

\* the block with its three calls of modulation.weekly_modulation in force
ModulationBlockEnabled(tt, pt, dd) ==
  [total_tests |-> WeeklyModulation("tests_total_modulated", tt),
   positive_tests |-> WeeklyModulation("tests_positive_modulated", pt),
   deaths_delayed |-> WeeklyModulation("cases_deaths_modulated", dd),
   names |-> <<"tests_total_modulated", "tests_positive_modulated",
               "cases_deaths_modulated">>]

\* the block between calc_delayed_deaths and the likelihood: the three calls of
\* modulation.weekly_modulation are comments, so the locals stay as they are
\* and nothing is declared
ModulationBlock(tt, pt, dd) ==
  [total_tests |-> tt, positive_tests |-> pt, deaths_delayed |-> dd, names |-> <<>>]

\* the parameters of studentT_likelihood(modelParams, new_cases)
LikelihoodParams == <<"modelParams", "new_cases">>

\* the positional arguments of the call in main_model:
\* studentT_likelihood(modelParams, positive_tests, total_tests, deaths_delayed)
LikelihoodCallArgs(pt, tt, dd) == <<pt, tt, dd>>

\* likelihood = yield studentT_likelihood(modelParams, positive_tests,
\*                                        total_tests, deaths_delayed)
\* Python binds the arguments when the generator function is called: more
\* positional arguments than parameters is a TypeError
CallLikelihood ==
  /\ pc = "likelihood"
  /\ LET m == ModulationBlock(total_tests, positive_tests, deaths_delayed)
         args == LikelihoodCallArgs(m.positive_tests, m.total_tests, m.deaths_delayed)
     IN  /\ total_tests' = m.total_tests
         /\ positive_tests' = m.positive_tests
         /\ deaths_delayed' = m.deaths_delayed
         /\ trace' = trace \o m.names
         /\ like_args' = args
         /\ IF 1 + Len(args) = Len(LikelihoodParams)
            THEN /\ new_cases' = args[1]
                 /\ pc' = "sigma"
                 /\ err' = err
            ELSE /\ new_cases' = new_cases
                 /\ pc' = "error"
                 /\ err' = "TypeError"
  /\ UNCHANGED <<entry, sample_shape, dists, data_tensor, sigma, loc, scale, observed,
                 C_cholesky, C_det, C, im_C, new_E_t_raw, new_E_t, paramVars, weekVars>>

\* the data with no entry missing
FullData == Tensor(DataShape, [i \in 1..Prod(DataShape) |-> Num(i)])

(***************************************************************************)
(* ModelParams                                                             *)
(***************************************************************************)
\* at most MaxRenames entries of distributions carry a name that is not
\* their default
MaxRenames == 2

\* the keys of distributions, in insertion order
DistKeys == <<"I_0", "R", "C", "sigma", "g_mu", "g_theta", "new_cases">>

DistKeySet == {DistKeys[i] : i \in 1..Len(DistKeys)}

\* ModelParams.__get_default_dist_config
DefaultDistConfig ==
  [k \in DistKeySet |->
     [name |-> k,
      shape_label |->
        CASE k \in {"I_0", "R"} -> <<"country", "age_group">>
          [] k = "C" -> <<"country", "age_group_i", "age_group_j">>
          [] k = "sigma" -> <<"likelihood scale">>
          [] k = "g_mu" -> <<"g_mu">>
          [] k = "g_theta" -> <<"g_theta">>
          [] k = "new_cases" -> <<"time", "country", "age_group">>]]

\* ModelParams.__get_default_data_config: the first and last row and the
\* labels of the column levels (rows and labels by their position)
DefaultDataConfig ==
  [begin |-> 1, end |-> NumTime,
   age_groups |-> [i \in 1..NumAgeGroups |-> i],
   countries |-> [i \in 1..NumCountries |-> i]]

\* the data frames a ModelParams is constructed from
DataFrames ==
  {FullData, Tensor(DataShape, [i \in 1..Prod(DataShape) |-> IF i = 2 THEN NaN ELSE Num(i)])}

\* ModelParams.__init__(data)
Constructed(frame) ==
  /\ num_countries = frame.shape[2]
  /\ num_age_groups = frame.shape[3]
  /\ df = frame
  /\ distributions = DefaultDistConfig
  /\ data = DefaultDataConfig
  /\ held = [obj |-> "none"]
  /\ last = "__init__"
  /\ asked = "(none)"

\* get_data with a copy returned in place of the frame itself
GetDataResultCopy == [obj |-> "copy of df"]

\* get_data: return self.df
GetDataResult == [obj |-> "df"]

GetData ==
  /\ entry = "ModelParams"
  /\ held' = GetDataResult
  /\ last' = "get_data"
  /\ UNCHANGED fieldVars

\* the loop with a break at the first entry that has the name
LookupKeyFirstMatch(d, name) ==
  LET hits == {i \in 1..Len(DistKeys) : d[DistKeys[i]].name = name}
  IN  IF hits = {} THEN "(unbound)"
      ELSE DistKeys[CHOOSE i \in hits : \A j \in hits : i <= j]

\* the loop of get_distribution_by_name: this_dist is the last key, in
\* insertion order, whose entry has the name; it stays unbound when none has
LookupKey(d, name) ==
  LET RECURSIVE Loop(_, _)
      Loop(i, this_dist) ==
        IF i > Len(DistKeys) THEN this_dist
        ELSE Loop(i + 1, IF d[DistKeys[i]].name = name THEN DistKeys[i] ELSE this_dist)
  IN  Loop(1, "(unbound)")

\* the names a caller asks for or gives to an entry
NewNames == {"sigma", "my new fancy name"}

LookupNames == DistKeySet \cup NewNames \cup {"R_0"}

\* get_distribution_by_name(name): return self.distributions[this_dist], or
\* UnboundLocalError when no entry has the name
GetDistributionByName ==
  /\ entry = "ModelParams"
  /\ \E name \in LookupNames :
       LET this_dist == LookupKey(distributions, name)
       IN  /\ asked' = name
           /\ IF this_dist = "(unbound)"
              THEN /\ err' = "UnboundLocalError"
                   /\ held' = [obj |-> "none"]
              ELSE /\ err' = "none"
                   /\ held' = [obj |-> "entry", key |-> this_dist]
  /\ last' = "get_distribution_by_name"
  /\ UNCHANGED fieldVars

RenamedCount(d) == Cardinality({k \in DistKeySet : d[k].name # k})

\* a use of the object get_data returned: frame.iloc[0, 0] = nan
WriteReturnedFrame ==
  /\ entry = "ModelParams"
  /\ held.obj \in {"df", "copy of df"}
  /\ df' = IF held.obj = "df" THEN [df EXCEPT !.flat[1] = NaN] ELSE df
  /\ last' = "use of returned object"
  /\ UNCHANGED <<num_countries, num_age_groups, distributions, data, held, err>>

\* a use of the object get_distribution_by_name returned: entry["name"] = n
WriteReturnedEntry ==
  /\ entry = "ModelParams"
  /\ held.obj = "entry"
  /\ \E n \in NewNames :
       /\ distributions' = [distributions EXCEPT ![held.key].name = n]
       /\ RenamedCount(distributions') <= MaxRenames
  /\ last' = "use of returned object"
  /\ UNCHANGED <<num_countries, num_age_groups, df, data, held, err>>

\* the documented way to change an entry:
\* params.distributions["I_0"]["name"] = "my new fancy name"
Rename ==
  /\ entry = "ModelParams"
  /\ \E k \in DistKeySet, n \in NewNames :
       /\ distributions' = [distributions EXCEPT ![k].name = n]
       /\ RenamedCount(distributions') <= MaxRenames
  /\ last' = "rename"
  /\ UNCHANGED <<num_countries, num_age_groups, df, data, held, err>>

(***************************************************************************)
(* week_modulation                                                         *)
(***************************************************************************)
\* the names week_modulation uses that weekly_modulation.py neither defines
\* nor imports by name: they are bound only if "from .model import *"
\* brings them
FreeNames == {"tt", "datetime", "name_cases"}

\* weekend_days=(6, 7)
WeekendDays == {6, 7}

\* the number 1 of np.ones, in the unit of the factors (tenths)
OneFactor == 10

\* a tensor of rank 0
Scalar(x) == Tensor(<<>>, <<x>>)

\* the value of the local modulation: a tensor, or the generator object that
\* a call of a generator function returns
TensorValue(t) == [gen |-> FALSE, t |-> t]
GeneratorObject == [gen |-> TRUE, t |-> Unbound]

\* model=None
NoModel == [is_none |-> TRUE, sim_begin |-> 1, is_hierarchical |-> FALSE, sim_shape |-> <<>>]

\* the models week_modulation is called with: sim_begin by its ISO weekday
Models ==
  {NoModel} \cup
  {[is_none |-> FALSE, sim_begin |-> w, is_hierarchical |-> h,
    sim_shape |-> IF h THEN <<NumTime, NumCountries>> ELSE <<NumTime>>] :
     w \in 1..7, h \in BOOLEAN}

\* daily new cases of the simulation's shape
CasesInputs(m) ==
  LET shape == IF m.is_none THEN <<NumTime>> ELSE m.sim_shape
  IN  {Tensor(shape, [i \in 1..Prod(shape) |-> i + k]) : k \in {0, 5}}

\* the values of weekend_factor, in tenths: a number, or one per region when
\* the model is hierarchical (weekend_factor_L2)
WeekendFactors(hierarchical) ==
  IF hierarchical
  THEN {Tensor(<<NumCountries>>, [i \in 1..NumCountries |-> f + i - 1]) : f \in {3, 15}}
  ELSE {Scalar(f) : f \in {3, 15}}

\* (model.sim_begin + datetime.timedelta(days=i)).isoweekday()
IsoWeekday(sim_begin, i) == ((sim_begin - 1 + i) % 7) + 1

\* step_modulation(): 1 on the days whose ISO weekday is in weekend_days
step_modulation(days, sim_begin) ==
  Tensor(<<days>>, [i \in 1..days |->
    IF IsoWeekday(sim_begin, i - 1) \in WeekendDays THEN 1 ELSE 0])

\* week_modulation is not part of this behaviour
NotCalled ==
  /\ globals = {}
  /\ week_modulation_type = "abs_sine"
  /\ model = NoModel
  /\ cases = Unbound
  /\ shape_modulation = <<>>
  /\ weekend_factor = Unbound
  /\ modulation = TensorValue(Unbound)
  /\ multiplication_vec = Unbound
  /\ new_cases_inferred_eff = Unbound

weekRest == <<entry, sample_shape, dists, likeVars, mainVars, paramVars, globals,
              week_modulation_type, model, cases>>

\* the raise of an exception
Raise(e) == pc' = "error" /\ err' = e

\* lines 118-138: delta_d_i, the declaration of weekly_modulation_weight, and
\* shape_modulation = list(model.sim_shape)
DeclareWeight ==
  /\ pc = "weight"
  /\ trace' = Append(trace, "weekly_modulation_weight")
  /\ IF model.is_none
     THEN Raise("AttributeError") /\ UNCHANGED shape_modulation
     ELSE /\ shape_modulation' = model.sim_shape
          /\ pc' = "weekend_factor"
          /\ err' = err
  /\ UNCHANGED <<weekRest, weekend_factor, modulation, multiplication_vec,
                 new_cases_inferred_eff>>

\* lines 141-164: weekend_factor, with tt.log and tt.exp
DeclareWeekendFactor ==
  /\ pc = "weekend_factor"
  /\ IF "tt" \notin globals
     THEN Raise("NameError") /\ UNCHANGED weekend_factor
     ELSE /\ weekend_factor' \in WeekendFactors(model.is_hierarchical)
          /\ pc' = "step"
          /\ err' = err
  /\ UNCHANGED <<weekRest, trace, shape_modulation, modulation, multiplication_vec,
                 new_cases_inferred_eff>>

\* line 167: modulation = step_modulation() if week_modulation_type == "step" else 0
StepModulation ==
  /\ pc = "step"
  /\ IF week_modulation_type = "step"
     THEN IF "datetime" \notin globals
          THEN Raise("NameError") /\ UNCHANGED modulation
          ELSE /\ modulation' =
                    TensorValue(step_modulation(shape_modulation[1], model.sim_begin))
               /\ pc' = "abs_sine"
               /\ err' = err
     ELSE /\ modulation' = TensorValue(Scalar(0))
          /\ pc' = "abs_sine"
          /\ err' = err
  /\ UNCHANGED <<weekRest, trace, shape_modulation, weekend_factor, multiplication_vec,
                 new_cases_inferred_eff>>

\* line 168: modulation = abs_sine_modulation() if week_modulation_type ==
\* "abs_sine" else 0; abs_sine_modulation has a yield, so that calling it
\* runs none of its body and returns a generator object
AbsSineModulation ==
  /\ pc = "abs_sine"
  /\ modulation' = IF week_modulation_type = "abs_sine"
                   THEN GeneratorObject
                   ELSE TensorValue(Scalar(0))
  /\ pc' = "pad"
  /\ UNCHANGED <<weekRest, err, trace, shape_modulation, weekend_factor,
                 multiplication_vec, new_cases_inferred_eff>>

\* lines 170-171: modulation = tt.shape_padaxis(modulation, axis=-1) if the
\* model is hierarchical
PadAxis ==
  /\ pc = "pad"
  /\ IF model.is_hierarchical
     THEN IF modulation.gen
          THEN Raise("TypeError") /\ UNCHANGED modulation
          ELSE /\ modulation' = TensorValue(NewAxisLast(modulation.t))
               /\ pc' = "multiply"
               /\ err' = err
     ELSE /\ pc' = "multiply"
          /\ UNCHANGED <<err, modulation>>
  /\ UNCHANGED <<weekRest, trace, shape_modulation, weekend_factor, multiplication_vec,
                 new_cases_inferred_eff>>

\* tt.abs_(np.ones(shape_modulation) - weekend_factor * modulation), in tenths
MultiplicationVec(shape, factor, m) ==
  LET pshape == BroadcastShape(factor.shape, m.shape)
      oshape == BroadcastShape(shape, pshape)
      prod == Tensor(pshape, [i \in 1..Prod(pshape) |->
                BroadcastGet(factor, pshape, i - 1) * BroadcastGet(m, pshape, i - 1)])
  IN  Tensor(oshape, [i \in 1..Prod(oshape) |->
        Abs(OneFactor - BroadcastGet(prod, oshape, i - 1))])

\* cases * multiplication_vec, in tenths
TimesVec(c, vec) ==
  LET oshape == BroadcastShape(c.shape, vec.shape)
  IN  Tensor(oshape, [i \in 1..Prod(oshape) |->
        BroadcastGet(c, oshape, i - 1) * BroadcastGet(vec, oshape, i - 1)])

\* lines 173-177: multiplication_vec and new_cases_inferred_eff
Multiply ==
  /\ pc = "multiply"
  /\ IF modulation.gen
     THEN Raise("TypeError") /\ UNCHANGED <<multiplication_vec, new_cases_inferred_eff>>
     ELSE IF /\ BroadcastOk(weekend_factor.shape, modulation.t.shape)
             /\ BroadcastOk(shape_modulation,
                            BroadcastShape(weekend_factor.shape, modulation.t.shape))
          THEN /\ multiplication_vec' =
                    MultiplicationVec(shape_modulation, weekend_factor, modulation.t)
               /\ new_cases_inferred_eff' = TimesVec(cases, multiplication_vec')
               /\ pc' = "store"
               /\ err' = err
          ELSE Raise("ValueError") /\ UNCHANGED <<multiplication_vec, new_cases_inferred_eff>>
  /\ UNCHANGED <<weekRest, trace, shape_modulation, weekend_factor, modulation>>

\* lines 179-182: the test of name_cases, which is no parameter and no local
\* of week_modulation, and the return
StoreCases ==
  /\ pc = "store"
  /\ IF "name_cases" \notin globals
     THEN Raise("NameError")
     ELSE pc' = "done" /\ err' = err
  /\ UNCHANGED <<weekRest, trace, shape_modulation, weekend_factor, modulation,
                 multiplication_vec, new_cases_inferred_eff>>

(***************************************************************************)
(* Specification: one run of main_model, or of studentT_likelihood alone.  *)
(***************************************************************************)
MainInit ==
  /\ entry = "main_model"
  /\ pc = "R_0"
  /\ sample_shape \in SampleShapes
  /\ data_tensor = FullData
  /\ new_cases = Unbound

LikeInit ==
  /\ entry = "studentT_likelihood"
  /\ pc = "sigma"
  /\ sample_shape \in LikeSampleShapes
  /\ data_tensor \in IF Len(sample_shape) = 2 THEN DataFrames ELSE DataTensors
  /\ new_cases \in NewCasesInputs(sample_shape)

Init ==
  /\ err = "none"
  /\ trace = <<>>
  /\ dists = <<>>
  /\ sigma = Unbound
  /\ loc = Unbound
  /\ scale = Unbound
  /\ observed = Unbound
  /\ C_cholesky = Unbound
  /\ C_det = Unbound
  /\ C = Unbound
  /\ im_C = Unbound
  /\ new_E_t_raw = Unbound
  /\ new_E_t = Unbound
  /\ total_tests = Unbound
  /\ positive_tests = Unbound
  /\ deaths_delayed = Unbound
  /\ like_args = <<>>
  /\ Constructed(FullData)
  /\ NotCalled
  /\ (MainInit \/ LikeInit)

vars == <<entry, pc, err, sample_shape, trace, dists, likeVars, mainVars, paramVars,
          weekVars>>

Next ==
  \/ DeclareR_0
  \/ DeclareR_t
  \/ DeclareC_cholesky
  \/ DeclareC
  \/ GenerationInterval
  \/ DeclareH_0_t
  \/ CallInfectionModel
  \/ DeclareNew_E_t
  \/ Testing
  \/ DeclareIFR
  \/ DeclareDelayDeaths
  \/ DelayedDeaths
  \/ CallLikelihood
  \/ DeclareSigma
  \/ ReshapeSigma
  \/ DeclareLike

Spec == Init /\ [][Next]_vars

(***************************************************************************)
(* Specification: a caller of a ModelParams.                               *)
(***************************************************************************)
ParamsInit ==
  /\ entry = "ModelParams"
  /\ pc = "idle"
  /\ err = "none"
  /\ sample_shape = <<>>
  /\ trace = <<>>
  /\ dists = <<>>
  /\ data_tensor = Unbound
  /\ new_cases = Unbound
  /\ sigma = Unbound
  /\ loc = Unbound
  /\ scale = Unbound
  /\ observed = Unbound
  /\ C_cholesky = Unbound
  /\ C_det = Unbound
  /\ C = Unbound
  /\ im_C = Unbound
  /\ new_E_t_raw = Unbound
  /\ new_E_t = Unbound
  /\ total_tests = Unbound
  /\ positive_tests = Unbound
  /\ deaths_delayed = Unbound
  /\ like_args = <<>>
  /\ \E frame \in DataFrames : Constructed(frame)
  /\ NotCalled

restVars == <<pc, sample_shape, trace, dists, likeVars, mainVars, weekVars>>

ParamsNext ==
  \/ GetData /\ UNCHANGED <<entry, err, asked, restVars>>
  \/ GetDistributionByName /\ UNCHANGED <<entry, restVars>>
  \/ WriteReturnedFrame /\ UNCHANGED <<entry, asked, restVars>>
  \/ WriteReturnedEntry /\ UNCHANGED <<entry, asked, restVars>>
  \/ Rename /\ UNCHANGED <<entry, asked, restVars>>

ParamsSpec == ParamsInit /\ [][ParamsNext]_vars

(***************************************************************************)
(* Specification: one run of week_modulation.                              *)
(***************************************************************************)
WeekInit ==
  /\ entry = "week_modulation"
  /\ pc = "weight"
  /\ err = "none"
  /\ sample_shape = <<>>
  /\ trace = <<>>
  /\ dists = <<>>
  /\ data_tensor = Unbound
  /\ new_cases = Unbound
  /\ sigma = Unbound
  /\ loc = Unbound
  /\ scale = Unbound
  /\ observed = Unbound
  /\ C_cholesky = Unbound
  /\ C_det = Unbound
  /\ C = Unbound
  /\ im_C = Unbound
  /\ new_E_t_raw = Unbound
  /\ new_E_t = Unbound
  /\ total_tests = Unbound
  /\ positive_tests = Unbound
  /\ deaths_delayed = Unbound
  /\ like_args = <<>>
  /\ Constructed(FullData)
  /\ globals \in SUBSET FreeNames
  /\ week_modulation_type \in {"step", "abs_sine"}
  /\ model \in Models
  /\ cases \in CasesInputs(model)
  /\ shape_modulation = <<>>
  /\ weekend_factor = Unbound
  /\ modulation = TensorValue(Unbound)
  /\ multiplication_vec = Unbound
  /\ new_cases_inferred_eff = Unbound

WeekNext ==
  \/ DeclareWeight
  \/ DeclareWeekendFactor
  \/ StepModulation
  \/ AbsSineModulation
  \/ PadAxis
  \/ Multiply
  \/ StoreCases

WeekSpec == WeekInit /\ [][WeekNext]_vars

(***************************************************************************)
(* Properties.                                                             *)
(***************************************************************************)
TraceNames == {trace[i] : i \in 1..Len(trace)}

\* the positions of the data that are not NaN
NonNaNPositions == {i \in 1..Len(data_tensor.flat) : ~IsNan(data_tensor.flat[i])}

\* C1: in studentT_likelihood the entries that reach "like" are exactly the
\* positions where the data is not NaN: observed, and every batch row of loc
\* and scale, have one entry per such position and no other, and the k-th
\* entry of each is the value at the k-th such position (time, country,
\* age_group in row-major order).
C1_MaskKeepsExactlyNonNaN ==
  (entry = "studentT_likelihood" /\ pc = "done") =>
    LET P == NonNaNPositions
        K == Cardinality(P)
        M == Len(data_tensor.flat)
        B == Len(new_cases.flat) \div M
        full == ScaleFull(sigma, new_cases)
    IN  /\ Len(observed.flat) = K
        /\ Len(loc.flat) = B * K
        /\ Len(scale.flat) = B * K
        /\ \A p \in P :
             LET k == Cardinality({q \in P : q <= p})
             IN  /\ observed.flat[k] = data_tensor.flat[p]
                 /\ \A b \in 0..(B - 1) :
                      /\ loc.flat[b * K + k] = new_cases.flat[b * M + p]
                      /\ scale.flat[b * K + k] = full.flat[b * M + p]

\* C1 witness: a batched run finished on data with several NaN entries
\* between entries that are not NaN
C1_Witness ==
  /\ entry = "studentT_likelihood"
  /\ pc = "done"
  /\ sample_shape # <<>>
  /\ IsNan(data_tensor.flat[2])
  /\ ~IsNan(data_tensor.flat[1])
  /\ ~IsNan(data_tensor.flat[3])
  /\ Len(observed.flat) = Len(data_tensor.flat) - 1

InClipRange(x) == Leq(Pow10(ClipMinExp), x) /\ Leq(x, Pow10(ClipMaxExp))

AllInClipRange(t) == \A i \in 1..Len(t.flat) : InClipRange(t.flat[i])

C3_RowsSumToOne ==
  "C" \in TraceNames =>
    \A r \in 0..((Len(C.flat) \div NumAgeGroups) - 1) :
      SumTo([k \in 1..NumAgeGroups |-> C.flat[r * NumAgeGroups + k].num], NumAgeGroups)
        = C.flat[r * NumAgeGroups + 1].den

\* C4: every entry of the scale given to "like" is strictly positive.
C4_ScalePositive ==
  (entry = "studentT_likelihood" /\ pc = "done") =>
    \A i \in 1..Len(scale.flat) : scale.flat[i] > 0

\* C4 witness: a finished run whose sigma held the smallest value of the
\* transform and whose scale has entries
C4_Witness ==
  /\ entry = "studentT_likelihood"
  /\ pc = "done"
  /\ Len(scale.flat) > 1
  /\ \E i \in 1..Len(sigma.flat) : sigma.flat[i] = SoftPlus(-2)

\* C5: the call of studentT_likelihood in main_model accepts the three
\* tensors it is given (positive_tests, total_tests, deaths_delayed).
C5_ChannelsAccepted ==
  (entry = "main_model" /\ Len(like_args) > 0) => (err = "none" /\ pc # "error")

\* the order of the declarations of a run of main_model
MainOrder ==
  <<"R_0", "R_t", "C_cholesky", "C", "h_0_t", "new_E_t", "total_tests",
    "positive_tests", "IFR", "delay_deaths", "cases_delayed_deaths", "sigma", "like">>

\* C6: a run of main_model that has ended has returned the likelihood, in no
\* error state, after the declarations R_0 .. like in their fixed order.
C6_ReturnsLikelihood ==
  (entry = "main_model" /\ pc \in {"done", "error"}) =>
    (pc = "done" /\ err = "none" /\ trace = MainOrder)

C8_SymmetricPositive ==
  \A i \in 1..Len(im_C.flat) :
    LET n == NumAgeGroups
        m == (i - 1) \div (n * n)
        a == ((i - 1) % (n * n)) \div n
        b == (i - 1) % n
        x == im_C.flat[i]
        y == im_C.flat[m * n * n + b * n + a + 1]
    IN  /\ x.num * y.den = y.num * x.den
        /\ x.num > 0

\* the names the weekly modulation would declare
WeeklyModulationNames ==
  {"tests_total_modulated", "tests_positive_modulated", "cases_deaths_modulated",
   "weekly_modulation_weight", "delta_d_i", "weekend_factor", "offset_modulation"}

\* C10: no run of main_model declares a weekly-modulation variable, and the
\* tensors handed to studentT_likelihood are the positive_tests and total_tests
\* that generate_testing returned and the deaths_delayed that
\* calc_delayed_deaths returned.
C10_ModulationDisabled ==
  /\ TraceNames \cap WeeklyModulationNames = {}
  /\ Len(like_args) > 0 =>
       like_args = <<GenerateTesting("total_tests", "positive_tests", new_E_t)[2],
                     GenerateTesting("total_tests", "positive_tests", new_E_t)[1],
                     CalcDelayedDeaths("cases_delayed_deaths", new_E_t)>>

\* C10 witness: main_model has made its call of studentT_likelihood
C10_Witness ==
  /\ entry = "main_model"
  /\ Len(like_args) = Len(<<"positive_tests", "total_tests", "deaths_delayed">>)
  /\ "cases_delayed_deaths" \in TraceNames

\* the steps a caller makes with the operations of a ModelParams
Operations == {"get_data", "get_distribution_by_name"}

\* C9 (as claimed): no operation of a ModelParams and no use of an object an
\* operation returned changes num_countries, num_age_groups, the data frame,
\* the distributions configuration or the data configuration.
C9_Immutable ==
  [][last' \in Operations \cup {"use of returned object"} => UNCHANGED fieldVars]_vars

\* C9 (amended): get_data and get_distribution_by_name change no field, and no
\* use of what they return changes num_countries, num_age_groups or the data
\* configuration; but what they return is the ModelParams' own data frame and
\* its own distributions entry, so a write through it lands in df or in
\* distributions.
C9_OperationsKeepFields ==
  [][/\ last' \in Operations => UNCHANGED fieldVars
     /\ last' = "use of returned object" =>
          /\ UNCHANGED <<num_countries, num_age_groups, data>>
          /\ IF held.obj = "entry"
             THEN /\ distributions'[held.key].name \in NewNames
                  /\ df' = df
             ELSE /\ IsNan(df'.flat[1])
                  /\ distributions' = distributions]_vars

\* C9 witness: a write through an entry that get_distribution_by_name
\* returned has changed the distributions configuration, and the first cell
\* of the data frame has become NaN
C9_Witness ==
  /\ last = "use of returned object"
  /\ held.obj = "entry"
  /\ distributions[held.key].name # held.key
  /\ IsNan(df.flat[1])

\* the positions, in insertion order, of the entries that have the name
Matches(d, name) == {i \in 1..Len(DistKeys) : d[DistKeys[i]].name = name}

\* C14: after any renames, get_distribution_by_name(n) returns the last entry
\* in insertion order whose name is n when there is one, and raises an error
\* (returning nothing) when no entry has the name n
C14_LookupByName ==
  last = "get_distribution_by_name" =>
    LET hits == Matches(distributions, asked)
    IN  IF hits = {}
        THEN err = "UnboundLocalError" /\ held.obj = "none"
        ELSE /\ err = "none"
             /\ held.obj = "entry"
             /\ distributions[held.key].name = asked
             /\ held.key = DistKeys[CHOOSE i \in hits : \A j \in hits : j <= i]

\* two entries carry the name asked for after a rename, and the later one
\* was returned
C14_Witness ==
  /\ last = "get_distribution_by_name"
  /\ asked = "sigma"
  /\ distributions["I_0"].name = "sigma"
  /\ distributions["sigma"].name = "sigma"
  /\ held = [obj |-> "entry", key |-> "sigma"]

\* r is s with an axis of size 1 for time and for age_group: the leading
\* axes, then 1, country, 1. The axes of size 1 leave the row-major order of
\* the entries as it was, so every entry keeps its batch and country index.
BroadcastAligned(s, r, batch) ==
  /\ r.shape = batch \o <<1, NumCountries, 1>>
  /\ r.flat = s.flat

\* C13: for 0, 1 or 2 leading axes of new_cases, the reshaped sigma is
\* broadcast-aligned with new_cases: its leading axes are those of new_cases,
\* its country axis is new_cases' country axis, and it has size 1 on the
\* time and age_group axes.
C13_SigmaAligned ==
  [][(pc = "reshape" /\ pc' = "like") => BroadcastAligned(sigma, sigma', sample_shape)]_vars

\* the shape_label of the declarations that main_model and
\* studentT_likelihood make themselves (the other names are declared, with
\* their labels, by the functions main_model calls)
ShapeLabels ==
  [n \in {"C_cholesky", "C", "h_0_t", "new_E_t", "sigma"} |->
     CASE n \in {"C_cholesky", "C"} -> <<"country", "age_group_i", "age_group_j">>
       [] n \in {"h_0_t", "new_E_t"} -> <<"time", "country", "age_group">>
       [] n = "sigma" -> <<"country">>]

\* C12: every name declared so far is the name of an entry of
\* ModelParams.distributions, and an entry with that name has the shape
\* labels of the declaration.
C12_DistributionsCoverModel ==
  \A n \in TraceNames :
    \E k \in DistKeySet :
      /\ distributions[k].name = n
      /\ n \in DOMAIN ShapeLabels => distributions[k].shape_label = ShapeLabels[n]

\* C11: with week_modulation_type = "step", the modulation that is used in
\* the multiplication is the vector of step_modulation, and the new cases are
\* the cases times the weekend factor on the days whose ISO weekday is in
\* weekend_days and the cases themselves on every other day (in tenths).
C11_StepModulation ==
  (entry = "week_modulation" /\ week_modulation_type = "step" /\ pc \in {"store", "done"}) =>
    /\ ~modulation.gen
    /\ modulation.t.flat = step_modulation(shape_modulation[1], model.sim_begin).flat
    /\ new_cases_inferred_eff.shape = cases.shape
    /\ \A i \in 1..Len(cases.flat) :
         LET day == Unravel(i - 1, cases.shape)[1]
         IN  new_cases_inferred_eff.flat[i] =
               IF IsoWeekday(model.sim_begin, day) \in WeekendDays
               THEN cases.flat[i] * BroadcastGet(weekend_factor, cases.shape, i - 1)
               ELSE cases.flat[i] * OneFactor

====
